---- MODULE Spec2Model ----
(***************************************************************************)
(* Model of the database benchmark driver (runBenchmark) and of its        *)
(* statistics reporter (calculateStats, formatDuration, the insights).     *)
(*                                                                         *)
(* Numbers.  A JavaScript number is modelled as a record                   *)
(*     [k, num, den]                                                       *)
(* k = "fin"  : the rational num/den (den > 0, lowest terms)               *)
(* k = "sqrt" : the real sign(num) * sqrt(|num|/den) (result of Math.sqrt  *)
(*              and of dividing such a value by a rational)                *)
(* k = "nan", "inf", "ninf" : NaN, +Infinity, -Infinity                    *)
(* Arithmetic on finite values is exact; the zero-divisor and empty-input  *)
(* cases follow IEEE 754 as JavaScript does.  The binary rounding of a     *)
(* quotient is modelled where it decides a printed digit (RoundingOf).     *)
(***************************************************************************)
EXTENDS Integers, Sequences, FiniteSets, TLC

VARIABLES
    values,      \* calculateStats harness: the argument `values`
    calcOut,     \* calculateStats harness: the returned Stats, or NoStats
    calcArg,     \* calculateStats harness: the argument of the last call
    fmtIn,       \* formatDuration harness: the argument `ms`
    fmtOut,      \* formatDuration harness: the returned string, or ""
    mapKeys,     \* mapping harness: the labels of `data`, in insertion order
    mapData,     \* mapping harness: label -> Stats
    tblOut,      \* mapping harness: the lines printTable wrote, or <<>>
    mckOut,      \* mapping harness: the most-consistent label computed, or ""
    pc,          \* runBenchmark: the statement control is at
    i,           \* runBenchmark: the loop counter
    now,         \* the clock read by Date.now(), in ms since the run began
    iterationStart, \* runBenchmark: Date.now() at the top of the iteration
    spent,       \* ms the clock has advanced inside measured intervals
    results,     \* runBenchmark: the four Duration sequences
    returned,    \* the durations the workloads returned, per label
    stats,       \* runBenchmark: label -> Stats, once computed
    calls,       \* number of calculateStats calls made, per label
    table,       \* the lines printTable has written
    insights,    \* the three insight lines written
    raw,         \* the raw-data lines written
    error,       \* the error thrown inside the try block, or "none"
    disconnects, \* number of prisma.$disconnect() calls
    exitCode,    \* process exit code, -1 while running
    outstanding  \* database requests issued by a workload and not yet settled

calcVars == <<values, calcOut, calcArg>>
fmtVars == <<fmtIn, fmtOut>>
clockVars == <<now, iterationStart, spent>>
reportVars == <<stats, calls, table, insights, raw>>
endVars == <<error, disconnects, exitCode, outstanding>>
runVars == <<pc, i, clockVars, results, returned, reportVars, endVars>>
mapVars == <<mapKeys, mapData, tblOut, mckOut>>
idleVars == <<calcVars, fmtVars, mapVars>>
vars == <<calcVars, fmtVars, mapVars, runVars>>

----------------------------------------------------------------------------
(* Bounds of the harnesses *)
MaxLen == 3      \* longest argument of calculateStats that is enumerated
MaxVal == 3      \* largest Duration in an enumerated argument

----------------------------------------------------------------------------
(* JavaScript numbers *)

Abs(x) == IF x < 0 THEN -x ELSE x
Sign(x) == IF x < 0 THEN -1 ELSE IF x = 0 THEN 0 ELSE 1

RECURSIVE GCD(_, _)
GCD(a, b) == IF b = 0 THEN a ELSE GCD(b, a % b)

\* the rational n/d in lowest terms, d # 0
Rat(n, d) ==
    LET g == GCD(Abs(n), Abs(d))
        s == IF d < 0 THEN -1 ELSE 1
    IN  [k |-> "fin", num |-> s * (n \div g), den |-> s * (d \div g)]

\* sign(n) * sqrt(|n|/d), d > 0
Root(n, d) ==
    LET g == GCD(Abs(n), d)
    IN  [k |-> "sqrt", num |-> n \div g, den |-> d \div g]

Num(n) == [k |-> "fin", num |-> n, den |-> 1]
NaN == [k |-> "nan", num |-> 0, den |-> 1]
PosInf == [k |-> "inf", num |-> 0, den |-> 1]
NegInf == [k |-> "ninf", num |-> 0, den |-> 1]

IsFinite(a) == a.k \in {"fin", "sqrt"}
IsZero(a) == IsFinite(a) /\ a.num = 0

\* finite rationals: a + b, a - b, a * b
RatAdd(a, b) == Rat(a.num * b.den + b.num * a.den, a.den * b.den)
RatSub(a, b) == Rat(a.num * b.den - b.num * a.den, a.den * b.den)
RatMul(a, b) == Rat(a.num * b.num, a.den * b.den)

\* the signed square of a finite value, as a rational: sign(a) * a^2
SignedSquare(a) ==
    IF a.k = "sqrt" THEN Rat(a.num, a.den)
    ELSE Rat(Sign(a.num) * a.num * a.num, a.den * a.den)

\* JavaScript a < b: false as soon as an operand is NaN
JsLt(a, b) ==
    IF a.k = "nan" \/ b.k = "nan" THEN FALSE
    ELSE IF a.k = "inf" \/ b.k = "ninf" THEN FALSE
    ELSE IF a.k = "ninf" \/ b.k = "inf" THEN TRUE
    ELSE IF a.k = "fin" /\ b.k = "fin" THEN a.num * b.den < b.num * a.den
    ELSE LET x == SignedSquare(a)
             y == SignedSquare(b)
         IN  x.num * y.den < y.num * x.den

\* JavaScript a <= b
JsLe(a, b) ==
    IF a.k = "nan" \/ b.k = "nan" THEN FALSE
    ELSE a = b \/ JsLt(a, b)

\* JavaScript a / b for a rational b: x/0 is +-Infinity, 0/0 is NaN
JsDiv(a, b) ==
    IF a.k = "nan" \/ b.k = "nan" THEN NaN
    ELSE IF a.k \in {"inf", "ninf"}
         THEN IF (a.k = "inf") = (b.num >= 0) THEN PosInf ELSE NegInf
    ELSE IF b.num = 0
         THEN IF a.num = 0 THEN NaN
              ELSE IF a.num > 0 THEN PosInf ELSE NegInf
    ELSE IF a.k = "sqrt"
         THEN Root(Sign(b.num) * a.num * b.den * b.den, a.den * b.num * b.num)
    ELSE Rat(a.num * b.den, a.den * b.num)

\* Math.sqrt
MathSqrt(a) ==
    IF a.k = "nan" THEN NaN
    ELSE IF a.k = "inf" THEN PosInf
    ELSE IF a.k = "ninf" \/ a.num < 0 THEN NaN
    ELSE Root(a.num, a.den)

----------------------------------------------------------------------------
(* STATISTICS CALCULATOR *)

\* a reduce that starts from the first element and misses it in the sum
RECURSIVE SumSeqSkipFirst(_)
SumSeqSkipFirst(s) ==
    IF s = <<>> THEN 0
    ELSE IF Len(s) = 1 THEN 0 ELSE s[2] + SumSeqSkipFirst(Tail(s))

\* values.reduce((a, b) => a + b, 0)
RECURSIVE SumSeq(_)
SumSeq(s) == IF s = <<>> THEN 0 ELSE s[1] + SumSeq(Tail(s))

\* a minimum that takes the first element
MinSeqFirst(s) == s[1]

\* Math.min(...values): Infinity without arguments
RECURSIVE MinSeq(_)
MinSeq(s) ==
    IF Len(s) = 1 THEN s[1]
    ELSE LET m == MinSeq(Tail(s)) IN IF s[1] < m THEN s[1] ELSE m

MathMin(s) == IF s = <<>> THEN PosInf ELSE Num(MinSeq(s))

\* a maximum that takes the first element
MaxSeqFirst(s) == s[1]

\* Math.max(...values): -Infinity without arguments
RECURSIVE MaxSeq(_)
MaxSeq(s) ==
    IF Len(s) = 1 THEN s[1]
    ELSE LET m == MaxSeq(Tail(s)) IN IF s[1] > m THEN s[1] ELSE m

MathMax(s) == IF s = <<>> THEN NegInf ELSE Num(MaxSeq(s))

\* values.reduce((sum, val) => sum + Math.pow(val - avg, 2), 0), avg finite
RECURSIVE SumSqDev(_, _)
SumSqDev(s, avg) ==
    IF s = <<>> THEN Num(0)
    ELSE LET d == RatSub(Num(s[1]), avg)
         IN  RatAdd(RatMul(d, d), SumSqDev(Tail(s), avg))

\* the divisor of a sample (not population) variance
VarianceDivisorSample(n) == n - 1

\* the divisor of the variance
VarianceDivisor(n) == n

calculateStats(vals) ==
    LET n == Len(vals)
        avg == JsDiv(Num(SumSeq(vals)), Num(n))
        min == MathMin(vals)
        max == MathMax(vals)
        variance ==
            IF n = 0 THEN JsDiv(Num(0), Num(0))
            ELSE JsDiv(SumSqDev(vals, avg), Num(VarianceDivisor(n)))
        sd == MathSqrt(variance)
    IN  [threw |-> "none", avg |-> avg, min |-> min, max |-> max, sd |-> sd]

NoStats == [threw |-> "notcalled", avg |-> NaN, min |-> NaN, max |-> NaN, sd |-> NaN]

----------------------------------------------------------------------------
(* MAIN BENCHMARK RUNNER: the state of runBenchmark *)

iterations == 10
delayMs == 1000

\* Object.entries order of `stats`
StatsKeys == <<"Lightweight", "Medium", "Heavy", "Total">>

EmptyResults == [lightweight |-> <<>>, medium |-> <<>>, heavy |-> <<>>, total |-> <<>>]
NoStatsMap == [key \in {"Lightweight", "Medium", "Heavy", "Total"} |-> NoStats]
NoCalls == [key \in {"Lightweight", "Medium", "Heavy", "Total"} |-> 0]
NoInsights == [ratio |-> "", cv |-> "", mostConsistent |-> ""]

\* the run's variables before runBenchmark is entered
RunStart ==
    /\ i = 1
    /\ now = 0 /\ iterationStart = 0 /\ spent = 0
    /\ results = EmptyResults
    /\ returned = EmptyResults
    /\ stats = NoStatsMap /\ calls = NoCalls
    /\ table = <<>> /\ insights = NoInsights /\ raw = <<>>
    /\ error = "none" /\ disconnects = 0 /\ exitCode = -1
    /\ outstanding = 0

InitRunIdle == pc = "idle" /\ RunStart

----------------------------------------------------------------------------
(* Harness of calculateStats: the argument is any sequence of at most      *)
(* MaxLen Durations in 0..MaxVal; it may be reordered between calls.       *)

SeqsUpTo(S, n) == UNION {[1..m -> S] : m \in 0..n}

InitMapIdle == mapKeys = <<>> /\ mapData = <<>> /\ tblOut = <<>> /\ mckOut = ""

InitFmtIdle == fmtIn = Num(0) /\ fmtOut = "" /\ InitMapIdle

InitCalc ==
    /\ values \in SeqsUpTo(0..MaxVal, MaxLen)
    /\ calcOut = NoStats
    /\ calcArg = <<>>
    /\ InitFmtIdle
    /\ InitRunIdle

CallCalculateStats ==
    /\ calcOut' = calculateStats(values)
    /\ calcArg' = values
    /\ UNCHANGED <<values, fmtVars, mapVars, runVars>>

\* the caller exchanges two neighbours of the sequence
Swap(s, j) ==
    [x \in 1..Len(s) |-> IF x = j THEN s[j + 1] ELSE IF x = j + 1 THEN s[j] ELSE s[x]]

Permute ==
    /\ \E j \in 1..(Len(values) - 1) : values' = Swap(values, j)
    /\ UNCHANGED <<calcOut, calcArg, fmtVars, mapVars, runVars>>

NextCalc == CallCalculateStats \/ Permute

SpecCalc == InitCalc /\ [][NextCalc]_vars

----------------------------------------------------------------------------
(* Claims about calculateStats, checked under SpecCalc *)

\* the sum of a sequence, by index
RECURSIVE SumTo(_, _)
SumTo(s, n) == IF n = 0 THEN 0 ELSE SumTo(s, n - 1) + s[n]
SumOf(s) == SumTo(s, Len(s))

Called == calcOut.threw # "notcalled"
Returned == calcOut.threw = "none"
Elements(s) == {s[x] : x \in 1..Len(s)}

\* C1 (as claimed): calculateStats over an empty sequence fails with
\* InvalidInput and never returns a Stats record.
C1_EmptyInputRaises ==
    (Called /\ calcArg = <<>>) => calcOut.threw = "InvalidInput"

\* What the code returns for the empty sequence (the observed behaviour):
\* avg = NaN, min = Infinity, max = -Infinity, sd = NaN, nothing thrown.
EmptyInputResult ==
    (Called /\ calcArg = <<>>) =>
        calcOut = [threw |-> "none", avg |-> NaN, min |-> PosInf,
                   max |-> NegInf, sd |-> NaN]

RECURSIVE ScaledSqDev(_, _, _)
ScaledSqDev(s, n, sum) ==
    IF s = <<>> THEN 0
    ELSE (n * s[1] - sum) * (n * s[1] - sum) + ScaledSqDev(Tail(s), n, sum)

\* C6: for a non-empty sequence of N Durations, avg = (sum of values)/N and
\* sd is the population standard deviation: sd^2 = (sum of (value-avg)^2)/N
\* (divisor N, not N-1); for a single element sd = 0.
C6_PopulationSd ==
    (Called /\ calcArg # <<>>) =>
        LET n == Len(calcArg)
            sum == SumOf(calcArg)
        IN  /\ Returned
            /\ calcOut.avg.k = "fin"
            /\ calcOut.avg.num * n = sum * calcOut.avg.den
            /\ calcOut.sd.k = "sqrt"
            /\ calcOut.sd.num >= 0
            /\ calcOut.sd.num * n * n * n
                  = calcOut.sd.den * ScaledSqDev(calcArg, n, sum)
            /\ (n = 1 => calcOut.sd = Root(0, 1))

C6_Witness ==
    /\ Called /\ Len(calcArg) = 2
    /\ calcOut.sd = Root(1, 4) /\ calcOut.avg = Rat(3, 2)

C6_WitnessSingle ==
    Called /\ Len(calcArg) = 1 /\ calcArg[1] > 0 /\ IsZero(calcOut.sd)

----------------------------------------------------------------------------
(* Number.prototype.toFixed and formatDuration *)

RECURSIVE Pow(_, _)
Pow(b, e) == IF e = 0 THEN 1 ELSE b * Pow(b, e - 1)

\* 2^e mod m
RECURSIVE PowMod2(_, _)
PowMod2(e, m) == IF e = 0 THEN 1 % m ELSE (2 * PowMod2(e - 1, m)) % m

\* the binary exponent e of p/q > 0: 2^e <= p/q < 2^(e+1)
RECURSIVE Exp2(_, _)
Exp2(p, q) ==
    IF p >= 2 * q THEN 1 + Exp2(p, 2 * q)
    ELSE IF p < q THEN Exp2(2 * p, q) - 1
    ELSE 0

\* floor of the square root of n >= 0
RECURSIVE IsqrtFrom(_, _)
IsqrtFrom(n, r) == IF (r + 1) * (r + 1) > n THEN r ELSE IsqrtFrom(n, r + 1)

RECURSIVE Isqrt(_)
Isqrt(n) ==
    IF n < 4 THEN IsqrtFrom(n, 0)
    ELSE IsqrtFrom(n, 2 * Isqrt(n \div 4))

\* How the double nearest to p/q (p, q > 0; 53-bit significand, ties to even)
\* lies to p/q: -1 below, 0 equal, 1 above.  With k = 52 - Exp2(p, q) the
\* significand is p*2^k/q rounded to an integer; only the remainder of p*2^k
\* modulo q and the parity of the quotient decide.
RoundingOf(p, q) ==
    LET k == 52 - Exp2(p, q)
        R == ((p % (2 * q)) * PowMod2(k, 2 * q)) % (2 * q)
        r == R % q
        odd == R >= q
    IN  IF r = 0 THEN 0
        ELSE IF 2 * r < q THEN -1
        ELSE IF 2 * r > q THEN 1
        ELSE IF odd THEN 1 ELSE -1

\* By how much that double differs from p/q: the double is
\* p/q + RoundingError(p, q) / (q * 2^k), k = 52 - Exp2(p, q)
RoundingError(p, q) ==
    LET k == 52 - Exp2(p, q)
        R == ((p % (2 * q)) * PowMod2(k, 2 * q)) % (2 * q)
        r == R % q
        odd == R >= q
    IN  IF r = 0 THEN 0
        ELSE IF 2 * r < q THEN -r
        ELSE IF 2 * r > q THEN q - r
        ELSE IF odd THEN q - r ELSE -r

\* the integer n nearest to x * 10^f for a finite x >= 0: "let n be an
\* integer for which n / 10^f - x is as close to zero as possible; if there
\* are two such n, pick the larger", x being the double that holds the value
NearestScaled(x, f) ==
    IF x.k = "sqrt"
    THEN (Isqrt((4 * Pow(100, f) * x.num) \div x.den) + 1) \div 2
    ELSE LET N == x.num * Pow(10, f)
             fl == N \div x.den
             r == N % x.den
         IN  IF 2 * r < x.den THEN fl
             ELSE IF 2 * r > x.den THEN fl + 1
             ELSE IF RoundingOf(x.num, x.den) < 0 THEN fl ELSE fl + 1

\* the f fraction digits of n, zero-padded on the left
RECURSIVE FractionDigits(_, _)
FractionDigits(n, f) ==
    IF f = 0 THEN ""
    ELSE FractionDigits(n \div 10, f - 1) \o ToString(n % 10)

\* x.toFixed(f)
toFixed(x, f) ==
    IF x.k = "nan" THEN "NaN"
    ELSE IF x.k = "inf" THEN "Infinity"
    ELSE IF x.k = "ninf" THEN "-Infinity"
    ELSE LET neg == x.num < 0
             ax == [x EXCEPT !.num = Abs(x.num)]
             n == NearestScaled(ax, f)
             digits == ToString(n \div Pow(10, f))
                          \o (IF f = 0 THEN "" ELSE "." \o FractionDigits(n % Pow(10, f), f))
         IN  IF neg /\ n # 0 THEN "-" \o digits ELSE digits

\* the threshold taken strictly
formatDurationStrict(ms) ==
    IF JsLt(Num(1000), ms)
    THEN toFixed(JsDiv(ms, Num(1000)), 2) \o "s"
    ELSE toFixed(ms, 0) \o "ms"

formatDuration(ms) ==
    IF JsLe(Num(1000), ms)
    THEN toFixed(JsDiv(ms, Num(1000)), 2) \o "s"
    ELSE toFixed(ms, 0) \o "ms"

----------------------------------------------------------------------------
(* Harness of formatDuration: the argument is a non-negative Duration, in  *)
(* quarters of a millisecond below FmtLow and around the threshold, the    *)
(* multiples of 5 ms above it (the two-decimal ties), and the examples of  *)
(* the documentation.                                                      *)

FmtLow == 4       \* quarters of a millisecond are enumerated in 0..FmtLow
FmtSpan == 4      \* and in 1000-FmtSpan .. 1000+FmtSpan
FmtTies == 40     \* the ties 1000+5j, j in 0..FmtTies

FmtInputs ==
    {Rat(q, 4) : q \in 0..(4 * FmtLow)}
      \cup {Rat(q, 4) : q \in (4 * (1000 - FmtSpan))..(4 * (1000 + FmtSpan))}
      \cup {Num(1000 + 5 * j) : j \in 0..FmtTies}
      \cup {Num(1500), Rat(12345, 10), Rat(8427, 10), Num(59999), Num(123456)}

InitCalcIdle == values = <<>> /\ calcOut = NoStats /\ calcArg = <<>>

InitFmt ==
    /\ fmtIn \in FmtInputs
    /\ fmtOut = ""
    /\ InitCalcIdle
    /\ InitMapIdle
    /\ InitRunIdle

CallFormatDuration ==
    /\ fmtOut = ""
    /\ fmtOut' = formatDuration(fmtIn)
    /\ UNCHANGED <<fmtIn, calcVars, mapVars, runVars>>

NextFmt == CallFormatDuration

SpecFmt == InitFmt /\ [][NextFmt]_vars

\* C7: formatDuration selects its unit by the threshold 1000 alone: for a
\* non-negative ms >= 1000 the result is ms/1000 with exactly two decimals
\* (a nearest multiple of 0.01) and the suffix "s"; for ms < 1000 it is ms
\* rounded to an integer and the suffix "ms"; formatDuration(999) = "999ms",
\* formatDuration(1000) = "1.00s", formatDuration(1500) = "1.50s".
C7_FormatDuration ==
    fmtOut # "" =>
        LET p == fmtIn.num
            q == fmtIn.den
        IN  /\ p >= 1000 * q =>
                \E n \in ((p \div (10 * q)) - 1)..((p \div (10 * q)) + 1) :
                    /\ Abs(10 * n * q - p) <= 5 * q
                    /\ fmtOut = ToString(n \div 100) \o "."
                                  \o ToString((n \div 10) % 10)
                                  \o ToString(n % 10) \o "s"
            /\ p < 1000 * q =>
                \E n \in (p \div q)..((p \div q) + 1) :
                    /\ Abs(2 * n * q - 2 * p) <= q
                    /\ fmtOut = ToString(n) \o "ms"
            /\ fmtIn = Num(999) => fmtOut = "999ms"
            /\ fmtIn = Num(1000) => fmtOut = "1.00s"
            /\ fmtIn = Num(1500) => fmtOut = "1.50s"

C7_Witness == fmtIn = Num(1000) /\ fmtOut = "1.00s"

----------------------------------------------------------------------------
(* runBenchmark: the iterations *)

MaxBusy == 3     \* ms the clock may advance inside measured intervals, per run
BatchSize == 2   \* requests issued together under one Promise.all

BusyIterations == 2  \* iterations at either end of the run that may be busy

\* the iterations in which the clock may advance inside a measured interval
Busy(n) == n <= BusyIterations \/ n > iterations - BusyIterations

\* the waits the clock may still make inside a measured interval
Waits == IF Busy(i) THEN 0..(MaxBusy - spent) ELSE {0}

\* the loop condition written i < iterations
LoopContinuesStrict(n) == n < iterations

\* for (let i = 1; i <= iterations; i++)
LoopContinues(n) == n <= iterations

\* an iteration that begins with the medium workload
IterationStartAtMedium ==
    /\ pc = "loop" /\ LoopContinues(i)
    /\ iterationStart' = now
    /\ pc' = "medium"
    /\ UNCHANGED <<idleVars, i, now, spent, results, returned, reportVars, endVars>>

\* const iterationStart = Date.now()
IterationStart ==
    /\ pc = "loop" /\ LoopContinues(i)
    /\ iterationStart' = now
    /\ pc' = "light"
    /\ UNCHANGED <<idleVars, i, now, spent, results, returned, reportVars, endVars>>

\* a workload after which the iteration's start is read again
WorkloadResettingStart(at, field, next) ==
    /\ pc = at /\ outstanding = 0
    /\ \E d \in Waits :
        /\ now' = now + d
        /\ iterationStart' = now + d
        /\ spent' = spent + d
        /\ returned' = [returned EXCEPT ![field] = Append(@, d)]
        /\ results' = [results EXCEPT ![field] = Append(@, d)]
    /\ pc' = next
    /\ UNCHANGED <<idleVars, i, reportVars, endVars>>

\* a workload that resolves: startTime = Date.now() on entry, endTime =
\* Date.now() after its last await; the caller pushes the returned duration
Workload(at, field, next) ==
    /\ pc = at /\ outstanding = 0
    /\ \E d \in Waits :
        LET startTime == now
            endTime == now + d
            duration == endTime - startTime
        IN  /\ now' = endTime
            /\ spent' = spent + d
            /\ returned' = [returned EXCEPT ![field] = Append(@, duration)]
            /\ results' = [results EXCEPT ![field] = Append(@, duration)]
    /\ pc' = next
    /\ UNCHANGED <<idleVars, i, iterationStart, reportVars, endVars>>

\* a workload whose awaited database call rejects: its catch logs and rethrows
WorkloadFails(at, name) ==
    /\ pc = at /\ outstanding = 0
    /\ error' = name
    /\ pc' = "catch"
    /\ UNCHANGED <<idleVars, i, clockVars, results, returned, reportVars, disconnects, exitCode, outstanding>>

\* await Promise.all(Array.from({ length: n }, () => prisma.x.create(...))):
\* every create of the batch is issued before the await; a workload issues
\* its next batch when the previous one has been fulfilled (mediumQuery
\* awaits 2 batches, heavyQuery 60 and two groups of queries; the number of
\* batches is left open here)
IssueBatch(at, all) ==
    /\ pc \in {at, all} /\ outstanding = 0
    /\ outstanding' = BatchSize
    /\ pc' = all
    /\ UNCHANGED <<idleVars, i, clockVars, results, returned, reportVars, error, disconnects, exitCode>>

\* one create of the batch rejects: Promise.all rejects at once, the others
\* of the batch stay in flight, and the workload's catch logs and rethrows
BatchRejects(all, name) ==
    /\ pc = all /\ outstanding > 0
    /\ outstanding' = outstanding - 1
    /\ error' = name
    /\ pc' = "catch"
    /\ UNCHANGED <<idleVars, i, clockVars, results, returned, reportVars, disconnects, exitCode>>

\* a request in flight settles: fulfilled while its Promise.all is awaited,
\* fulfilled or rejected unobserved once that Promise.all has rejected
RequestSettles ==
    /\ outstanding > 0 /\ pc # "exited"
    /\ outstanding' = outstanding - 1
    /\ UNCHANGED <<idleVars, pc, i, clockVars, results, returned, reportVars, error, disconnects, exitCode>>

LightweightQuery == Workload("light", "lightweight", "medium")
LightweightQueryFails == WorkloadFails("light", "lightweightQuery")
MediumBatch == IssueBatch("medium", "mediumAll")
MediumBatchRejects == BatchRejects("mediumAll", "mediumQuery")
MediumQuery == Workload("mediumAll", "medium", "heavy")
MediumQueryFails == WorkloadFails("mediumAll", "mediumQuery")
HeavyBatch == IssueBatch("heavy", "heavyAll")
HeavyBatchRejects == BatchRejects("heavyAll", "heavyQuery")
HeavyQuery == Workload("heavyAll", "heavy", "end")
HeavyQueryFails == WorkloadFails("heavyAll", "heavyQuery")

\* iterationEnd = Date.now(); results.total.push(iterationEnd - iterationStart);
\* the summary lines; then the delay unless this was the last iteration
IterationEnd ==
    /\ pc = "end"
    /\ \E g \in Waits :
        LET iterationEnd == now + g
            totalTime == iterationEnd - iterationStart
        IN  /\ now' = iterationEnd
            /\ spent' = spent + g
            /\ results' = [results EXCEPT !.total = Append(@, totalTime)]
    /\ IF i < iterations
       THEN pc' = "delay" /\ i' = i
       ELSE pc' = "loop" /\ i' = i + 1
    /\ UNCHANGED <<idleVars, iterationStart, returned, reportVars, endVars>>

\* await new Promise((resolve) => setTimeout(resolve, 1000)); i++
Delay ==
    /\ pc = "delay"
    /\ now' = now + delayMs
    /\ i' = i + 1
    /\ pc' = "loop"
    /\ UNCHANGED <<idleVars, iterationStart, spent, results, returned, reportVars, endVars>>

ExitLoop ==
    /\ pc = "loop" /\ ~LoopContinues(i)
    /\ pc' = "stats"
    /\ UNCHANGED <<idleVars, i, clockVars, results, returned, reportVars, endVars>>

----------------------------------------------------------------------------
(* runBenchmark: the report *)

\* ascending insertion of x into a sorted sequence
RECURSIVE Insert(_, _)
Insert(x, s) ==
    IF s = <<>> THEN <<x>>
    ELSE IF x <= Head(s) THEN <<x>> \o s ELSE <<Head(s)>> \o Insert(x, Tail(s))

\* values.sort((a, b) => a - b), which sorts the array in place
RECURSIVE Sorted(_)
Sorted(s) == IF s = <<>> THEN <<>> ELSE Insert(Head(s), Sorted(Tail(s)))

\* a calculateStats that sorts its argument in place before reducing it
ComputeStatsSorting ==
    /\ pc = "stats"
    /\ results' = [f \in DOMAIN results |-> Sorted(results[f])]
    /\ stats' = [Lightweight |-> calculateStats(results.lightweight),
                 Medium |-> calculateStats(results.medium),
                 Heavy |-> calculateStats(results.heavy),
                 Total |-> calculateStats(results.total)]
    /\ calls' = [key \in DOMAIN calls |-> calls[key] + 1]
    /\ pc' = "table"
    /\ UNCHANGED <<idleVars, i, clockVars, returned, table, insights, raw, endVars>>

\* const stats = { Lightweight: calculateStats(results.lightweight), ... }
ComputeStats ==
    /\ pc = "stats"
    /\ stats' = [Lightweight |-> calculateStats(results.lightweight),
                 Medium |-> calculateStats(results.medium),
                 Heavy |-> calculateStats(results.heavy),
                 Total |-> calculateStats(results.total)]
    /\ calls' = [key \in DOMAIN calls |-> calls[key] + 1]
    /\ pc' = "table"
    /\ UNCHANGED <<idleVars, i, clockVars, results, returned, table, insights, raw, endVars>>

RECURSIVE Spaces(_)
Spaces(n) == IF n <= 0 THEN "" ELSE " " \o Spaces(n - 1)

\* String.prototype.padEnd with the default fill
padEnd(str, n) == str \o Spaces(n - Len(str))

\* one data row of printTable
TableRow(key, st) ==
    "| " \o padEnd(key, 15)
      \o " | " \o padEnd(formatDuration(st.avg), 12)
      \o " | " \o padEnd(formatDuration(st.min), 12)
      \o " | " \o padEnd(formatDuration(st.max), 12)
      \o " | " \o padEnd(formatDuration(st.sd), 12) \o " |"

\* Object.entries(data).forEach(...) of printTable
TableRows(keys, data) == [r \in 1..Len(keys) |-> TableRow(keys[r], data[keys[r]])]

\* The border and heading lines of printTable.  Each box-drawing character
\* of the source is one character; it is written here as +, - or |.
TopBorder ==
    "+-----------------+--------------+--------------+--------------+--------------+"
HeadingLine ==
    "| Query Type      | Average      | Min          | Max          | Std Dev      |"
MiddleBorder ==
    "+-----------------+--------------+--------------+--------------+--------------+"
BottomBorder ==
    "+-----------------+--------------+--------------+--------------+--------------+"

\* a printTable that pads its cells on the left (padStart) to narrower columns
printTableNarrow(title, keys, data) ==
    <<title, TopBorder, HeadingLine, MiddleBorder>>
      \o [r \in 1..Len(keys) |->
            "| " \o Spaces(14 - Len(keys[r])) \o keys[r]
              \o " | " \o padEnd(formatDuration(data[keys[r]].avg), 12)
              \o " | " \o padEnd(formatDuration(data[keys[r]].min), 12)
              \o " | " \o padEnd(formatDuration(data[keys[r]].max), 12)
              \o " | " \o padEnd(formatDuration(data[keys[r]].sd), 12) \o " |"]
      \o <<BottomBorder>>

\* the lines printTable writes: "\n" + title, the header block, one row per
\* entry of `data` in insertion order, the closing border
printTable(title, keys, data) ==
    <<title, TopBorder, HeadingLine, MiddleBorder>>
      \o TableRows(keys, data)
      \o <<BottomBorder>>

TableTitle == "Performance Statistics"

PrintTable ==
    /\ pc = "table"
    /\ table' = printTable(TableTitle, StatsKeys, stats)
    /\ pc' = "insights"
    /\ UNCHANGED <<idleVars, i, clockVars, results, returned, stats, calls, insights, raw, endVars>>

\* x * 100
Times100(x) ==
    IF x.k = "fin" THEN Rat(x.num * 100, x.den)
    ELSE IF x.k = "sqrt" THEN Root(x.num * 10000, x.den)
    ELSE x

\* the coefficient of variation as the code computes it: sd / avg
CoefficientOfVariation(st) == JsDiv(st.sd, st.avg)

\* filtered.reduce((min, cur) => cur.sd/cur.avg < min.sd/min.avg ? cur : min, filtered[0])
RECURSIVE ReduceMin(_, _, _)
ReduceMin(min, rest, data) ==
    IF rest = <<>> THEN min
    ELSE LET cur == Head(rest)
         IN  ReduceMin(
                IF JsLt(CoefficientOfVariation(data[cur]), CoefficientOfVariation(data[min]))
                THEN cur ELSE min,
                Tail(rest), data)

NotTotal(key) == key # "Total"

\* a reduce that prefers the later of two equal entries
RECURSIVE ReduceMinLast(_, _, _)
ReduceMinLast(min, rest, data) ==
    IF rest = <<>> THEN min
    ELSE LET cur == Head(rest)
         IN  ReduceMinLast(
                IF JsLt(CoefficientOfVariation(data[min]), CoefficientOfVariation(data[cur]))
                THEN min ELSE cur,
                Tail(rest), data)

\* the computation without its empty-set guard: reducing from an undefined
\* first entry throws
mostConsistentKeyUnguarded(keys, data) ==
    LET filtered == SelectSeq(keys, NotTotal)
    IN  IF Len(filtered) = 0 THEN "TypeError"
        ELSE ReduceMin(filtered[1], filtered, data)

mostConsistentKey(keys, data) ==
    LET filtered == SelectSeq(keys, NotTotal)
    IN  IF Len(filtered) = 0 THEN "N/A"
        ELSE ReduceMin(filtered[1], filtered, data)

\* the ratio with the operands exchanged
RatioLineInverted(data) == toFixed(JsDiv(data.Lightweight.avg, data.Heavy.avg), 1) \o "x"

\* (stats.Heavy.avg / stats.Lightweight.avg).toFixed(1) + "x"
RatioLine(data) == toFixed(JsDiv(data.Heavy.avg, data.Lightweight.avg), 1) \o "x"

\* ((stats.Heavy.sd / stats.Heavy.avg) * 100).toFixed(1) + "%"
VariabilityLine(data) == toFixed(Times100(CoefficientOfVariation(data.Heavy)), 1) \o "%"

ComputeInsights ==
    /\ pc = "insights"
    /\ insights' = [ratio |-> RatioLine(stats),
                    cv |-> VariabilityLine(stats),
                    mostConsistent |-> mostConsistentKey(StatsKeys, stats)]
    /\ pc' = "raw"
    /\ UNCHANGED <<idleVars, i, clockVars, results, returned, stats, calls, table, raw, endVars>>

\* values.map((v) => v.toFixed(0)).join(", ")
RECURSIVE JoinFixed(_)
JoinFixed(s) ==
    IF s = <<>> THEN ""
    ELSE IF Len(s) = 1 THEN toFixed(Num(s[1]), 0)
    ELSE toFixed(Num(s[1]), 0) \o ", " \o JoinFixed(Tail(s))

PrintRawData ==
    /\ pc = "raw"
    /\ raw' = <<JoinFixed(results.lightweight), JoinFixed(results.medium),
                JoinFixed(results.heavy), JoinFixed(results.total)>>
    /\ pc' = "return"
    /\ UNCHANGED <<idleVars, i, clockVars, results, returned, stats, calls, table, insights, endVars>>

\* return { results, stats }: control passes to the finally block
Return ==
    /\ pc = "return"
    /\ pc' = "finally"
    /\ UNCHANGED <<idleVars, i, clockVars, results, returned, reportVars, endVars>>

\* a catch block that logs and does not rethrow
CatchSwallows ==
    /\ pc = "catch"
    /\ error' = "none"
    /\ pc' = "finally"
    /\ UNCHANGED <<idleVars, i, clockVars, results, returned, reportVars, disconnects, exitCode, outstanding>>

\* catch (error) { console.error(...); throw error; }
Catch ==
    /\ pc = "catch"
    /\ pc' = "finally"
    /\ UNCHANGED <<idleVars, i, clockVars, results, returned, reportVars, endVars>>

\* a finally block that settles the promise without disconnecting
FinallyWithoutDisconnect ==
    /\ pc = "finally"
    /\ pc' = IF error = "none" THEN "resolved" ELSE "rejected"
    /\ UNCHANGED <<idleVars, i, clockVars, results, returned, reportVars, endVars>>

\* finally { await prisma.$disconnect(); }: then the promise settles
Finally ==
    /\ pc = "finally"
    /\ disconnects' = disconnects + 1
    /\ pc' = IF error = "none" THEN "resolved" ELSE "rejected"
    /\ UNCHANGED <<idleVars, i, clockVars, results, returned, reportVars, error, exitCode, outstanding>>

\* .then(() => { ...; process.exit(0); })
MainThen ==
    /\ pc = "resolved"
    /\ exitCode' = 0
    /\ pc' = "exited"
    /\ UNCHANGED <<idleVars, i, clockVars, results, returned, reportVars, error, disconnects, outstanding>>

\* .catch((error) => { ...; process.exit(1); })
MainCatch ==
    /\ pc = "rejected"
    /\ exitCode' = 1
    /\ pc' = "exited"
    /\ UNCHANGED <<idleVars, i, clockVars, results, returned, reportVars, error, disconnects, outstanding>>


Init ==
    /\ pc = "loop"
    /\ RunStart
    /\ InitCalcIdle
    /\ InitFmtIdle

Next ==
    \/ IterationStart
    \/ LightweightQuery \/ LightweightQueryFails
    \/ MediumBatch \/ MediumBatchRejects \/ MediumQuery \/ MediumQueryFails
    \/ HeavyBatch \/ HeavyBatchRejects \/ HeavyQuery \/ HeavyQueryFails
    \/ RequestSettles
    \/ IterationEnd \/ Delay \/ ExitLoop
    \/ ComputeStats \/ PrintTable \/ ComputeInsights \/ PrintRawData \/ Return
    \/ Catch \/ Finally \/ MainThen \/ MainCatch

Spec == Init /\ [][Next]_vars

----------------------------------------------------------------------------
(* Harness of the report: the report statements of runBenchmark run on     *)
(* complete Duration sequences handed over by a collector.  The three      *)
(* workload sequences have one common length in 1..RepLen and values in    *)
(* RepValues, or are one of the documented examples; the total of an       *)
(* iteration is the sum of its three durations.                            *)

RepLen == 2
RepValues == {0, 1, 3}

PointwiseTotal(l, m, h) == [x \in 1..Len(l) |-> l[x] + m[x] + h[x]]

Collected(l, m, h) ==
    [lightweight |-> l, medium |-> m, heavy |-> h, total |-> PointwiseTotal(l, m, h)]

ReportInputs ==
    {Collected(l, m, h) : l, m, h \in [1..1 -> RepValues]}
      \cup UNION {{Collected(l, m, h) : l, m, h \in [1..n -> RepValues]} : n \in 2..RepLen}
      \cup {Collected(<<10, 20, 30>>, <<100, 200, 300>>, <<1000, 2000, 3000>>),
            Collected(<<9, 11>>, <<19, 21>>, <<4, 6>>),
            Collected(<<19, 21>>, <<9, 11>>, <<4, 6>>),
            Collected(<<4, 6>>, <<9, 11>>, <<19, 21>>)}

InitReport ==
    /\ pc = "stats"
    /\ i = iterations + 1
    /\ now = 0 /\ iterationStart = 0 /\ spent = 0
    /\ results \in ReportInputs
    /\ returned = [results EXCEPT !.total = <<>>]
    /\ stats = NoStatsMap /\ calls = NoCalls
    /\ table = <<>> /\ insights = NoInsights /\ raw = <<>>
    /\ error = "none" /\ disconnects = 0 /\ exitCode = -1
    /\ outstanding = 0
    /\ InitCalcIdle
    /\ InitFmtIdle

NextReport == ComputeStats \/ PrintTable \/ ComputeInsights \/ PrintRawData \/ Return

SpecReport == InitReport /\ [][NextReport]_vars

----------------------------------------------------------------------------
(* Harness of printTable and of the most-consistent computation on other   *)
(* mappings than the one runBenchmark builds: the labels are one of        *)
(* MapKeyLists (none, Total alone, the four of the run, a label of 16      *)
(* characters, ...) and each label's Stats is one of MapStats.             *)

MapKeyLists ==
    {<<>>, <<"Total">>, StatsKeys, <<"Heavy", "Lightweight">>,
     <<"Total", "Medium">>, <<"Index scan, cold">>}

MapStats ==
    {calculateStats(<<>>), calculateStats(<<0>>), calculateStats(<<1, 3>>),
     calculateStats(<<2, 6>>), calculateStats(<<1000, 2000, 3000>>)}

KeySet(keys) == {keys[x] : x \in 1..Len(keys)}

InitMap ==
    /\ mapKeys \in MapKeyLists
    /\ mapData \in [KeySet(mapKeys) -> MapStats]
    /\ tblOut = <<>>
    /\ mckOut = ""
    /\ InitCalcIdle
    /\ fmtIn = Num(0) /\ fmtOut = ""
    /\ InitRunIdle

CallPrintTable ==
    /\ tblOut = <<>>
    /\ tblOut' = printTable(TableTitle, mapKeys, mapData)
    /\ UNCHANGED <<mapKeys, mapData, mckOut, calcVars, fmtVars, runVars>>

CallMostConsistentKey ==
    /\ mckOut = ""
    /\ mckOut' = mostConsistentKey(mapKeys, mapData)
    /\ UNCHANGED <<mapKeys, mapData, tblOut, calcVars, fmtVars, runVars>>

NextMap == CallPrintTable \/ CallMostConsistentKey

SpecMap == InitMap /\ [][NextMap]_vars

\* n blanks, as literal text
Blanks(n) ==
    <<"", " ", "  ", "   ", "    ", "     ", "      ", "       ", "        ",
      "         ", "          ", "           ", "            ",
      "             ", "              ", "               ">>[n + 1]

\* a cell of the given width: the text followed by blanks up to the width,
\* the text alone when it is wider
Cell(text, width) ==
    IF Len(text) >= width THEN text ELSE text \o Blanks(width - Len(text))

\* the row of a label: five cells between the column separators
IsRowOf(row, key, st) ==
    row = "| " \o Cell(key, 15)
            \o " | " \o Cell(formatDuration(st.avg), 12)
            \o " | " \o Cell(formatDuration(st.min), 12)
            \o " | " \o Cell(formatDuration(st.max), 12)
            \o " | " \o Cell(formatDuration(st.sd), 12) \o " |"

FitsColumns(key, st) ==
    /\ Len(key) <= 15
    /\ Len(formatDuration(st.avg)) <= 12 /\ Len(formatDuration(st.min)) <= 12
    /\ Len(formatDuration(st.max)) <= 12 /\ Len(formatDuration(st.sd)) <= 12

\* C11: printTable writes one data row per label of its mapping, in the
\* mapping's insertion order, between one header block and one closing
\* border; the label cell is padded to 15 characters and each numeric cell
\* to 12, so a row is as wide as the border lines whenever the label has at
\* most 15 characters and each formatted duration at most 12.
C11_TableRows ==
    tblOut # <<>> =>
        LET n == Len(mapKeys)
        IN  /\ Len(tblOut) = n + 5
            /\ tblOut[1] = TableTitle
            /\ tblOut[2] = TopBorder /\ tblOut[3] = HeadingLine
            /\ tblOut[4] = MiddleBorder
            /\ tblOut[n + 5] = BottomBorder
            /\ Len(TopBorder) = 79 /\ Len(HeadingLine) = 79
            /\ Len(MiddleBorder) = 79 /\ Len(BottomBorder) = 79
            /\ \A r \in 1..n :
                /\ IsRowOf(tblOut[4 + r], mapKeys[r], mapData[mapKeys[r]])
                /\ FitsColumns(mapKeys[r], mapData[mapKeys[r]])
                      => Len(tblOut[4 + r]) = Len(TopBorder)

C11_Witness ==
    /\ tblOut # <<>> /\ mapKeys = StatsKeys
    /\ mapData.Lightweight = calculateStats(<<1, 3>>)
    /\ mapData.Total = calculateStats(<<1000, 2000, 3000>>)
    /\ tblOut[5] =
         "| Lightweight     | 2ms          | 1ms          | 3ms          | 1ms          |"
    /\ tblOut[8] =
         "| Total           | 2.00s        | 1.00s        | 3.00s        | 816ms        |"

\* a label of more than 15 characters makes its row wider than the borders
C11_WideLabelWitness ==
    /\ tblOut # <<>> /\ Len(mapKeys) = 1 /\ Len(mapKeys[1]) = 16
    /\ Len(tblOut[5]) = Len(TopBorder) + 1

\* C12: when no label other than Total is in the mapping (the comparison
\* set is empty), the most-consistent insight is the sentinel "N/A" and the
\* computation does not fail.
C12_EmptyComparisonSet ==
    (mckOut # "" /\ KeySet(mapKeys) \subseteq {"Total"}) => mckOut = "N/A"

C12_Witness == mckOut = "N/A" /\ mapKeys = <<"Total">>

C12_WitnessNoLabels == mckOut = "N/A" /\ mapKeys = <<>>

\* with a label to compare, a label of the mapping other than Total is
\* reported, never the sentinel
SentinelOnlyWhenEmpty ==
    (mckOut # "" /\ ~(KeySet(mapKeys) \subseteq {"Total"}))
        => mckOut \in KeySet(mapKeys) \ {"Total"}

----------------------------------------------------------------------------
(* Claims about the insights and the run *)

InsightsWritten == insights # NoInsights
Compared == {"Lightweight", "Medium", "Heavy"}
KeyIndex(key) == CHOOSE x \in 1..Len(StatsKeys) : StatsKeys[x] = key

\* some average that the insights divide by is exactly zero
ZeroDivisor == \E key \in Compared : IsZero(stats[key].avg)

\* C2 (as claimed): when an average used as a divisor is exactly zero, the
\* insight computation fails with an ArithmeticError and reports no
\* Infinity or NaN value.
C2_ZeroAverageRaises ==
    (pc \in {"raw", "return", "finally", "resolved", "rejected", "exited"}
        /\ calls.Heavy > 0 /\ ZeroDivisor)
      => (error = "ArithmeticError" /\ ~InsightsWritten)

\* What the code writes when Heavy.avg = 0 (the observed behaviour): the
\* ratio and the variability are NaN or Infinity and nothing is thrown.
ZeroHeavyAverageReported ==
    (InsightsWritten /\ IsZero(stats.Heavy.avg)) =>
        /\ error = "none"
        /\ insights.cv = "NaN%"
        /\ insights.ratio \in {"NaNx", "0.0x"}

\* sd/avg of one label is smaller than that of another, both averages
\* being positive: sd_a^2 * avg_b^2 < sd_b^2 * avg_a^2
CvDefined(a) == stats[a].avg.k = "fin" /\ stats[a].avg.num > 0 /\ stats[a].sd.k = "sqrt"
CvSquared(a) ==
    Rat(stats[a].sd.num * stats[a].avg.den * stats[a].avg.den,
        stats[a].sd.den * stats[a].avg.num * stats[a].avg.num)
CvSmaller(a, b) ==
    CvSquared(a).num * CvSquared(b).den < CvSquared(b).num * CvSquared(a).den

\* the label the claim names: smallest sd/avg, the first of the labels
\* that share it
IsMostConsistent(key) ==
    /\ key \in Compared
    /\ CvDefined(key)
    /\ \A other \in Compared :
        CvDefined(other) =>
            /\ ~CvSmaller(other, key)
            /\ (KeyIndex(other) < KeyIndex(key) => CvSmaller(key, other))

\* C8 (as claimed): the most-consistent label reported is the label other
\* than Total with the smallest coefficient of variation sd/avg, the first
\* in the order Lightweight, Medium, Heavy among equals; Total is never
\* reported.
C8_MostConsistent ==
    InsightsWritten => IsMostConsistent(insights.mostConsistent)

\* C8 restricted to the runs C2 does not concern: with every compared
\* average positive the reported label is the one the claim names.
C8_WhenAveragesPositive ==
    (InsightsWritten /\ \A key \in Compared : CvDefined(key))
        => IsMostConsistent(insights.mostConsistent)

C8_WhenAveragesPositiveWitness ==
    /\ InsightsWritten
    /\ results.lightweight = <<9, 11>> /\ results.medium = <<19, 21>>
    /\ results.heavy = <<4, 6>>
    /\ insights.mostConsistent = "Medium"

C8_TieWitness ==
    /\ InsightsWritten
    /\ \A key \in Compared : CvDefined(key)
    /\ ~CvSmaller("Lightweight", "Heavy") /\ ~CvSmaller("Heavy", "Lightweight")
    /\ CvSmaller("Lightweight", "Medium")
    /\ insights.mostConsistent = "Lightweight"

\* the text of a non-negative number of tenths n, with one decimal
OneDecimal(n) == ToString(n \div 10) \o "." \o ToString(n % 10)

\* the ratio line shows Heavy.avg / Lightweight.avg = P/Q to one decimal:
\* some n tenths with |n/10 - P/Q| <= 1/20, where P/Q is
\* (sum(heavy)/len(heavy)) / (sum(lightweight)/len(lightweight))
RatioShown ==
    LET P == SumOf(results.heavy) * Len(results.lightweight)
        Q == SumOf(results.lightweight) * Len(results.heavy)
    IN  /\ Q > 0
        /\ \E n \in (((10 * P) \div Q) - 1)..(((10 * P) \div Q) + 1) :
              /\ n >= 0
              /\ Abs(2 * n * Q - 20 * P) <= Q
              /\ insights.ratio = OneDecimal(n) \o "x"

ExampleRun ==
    /\ results.lightweight = <<10, 20, 30>>
    /\ results.medium = <<100, 200, 300>>
    /\ results.heavy = <<1000, 2000, 3000>>

\* C9 (as claimed): the ratio reported equals Heavy.avg / Lightweight.avg
\* (Heavy in the numerator) with one decimal and the suffix "x"; for
\* Lightweight=[10,20,30], Medium=[100,200,300], Heavy=[1000,2000,3000] the
\* averages are 20, 200, 2000 and the ratio is 100.0x.
C9_Ratio ==
    InsightsWritten =>
        /\ RatioShown
        /\ ExampleRun =>
            /\ stats.Lightweight.avg = Num(20)
            /\ stats.Medium.avg = Num(200)
            /\ stats.Heavy.avg = Num(2000)
            /\ insights.ratio = "100.0x"

\* C9 restricted to the runs C2 does not concern: with a positive
\* Lightweight average the ratio line is as claimed.
C9_WhenLightweightPositive ==
    (InsightsWritten /\ SumOf(results.lightweight) > 0) =>
        /\ RatioShown
        /\ ExampleRun =>
            /\ stats.Lightweight.avg = Num(20)
            /\ stats.Medium.avg = Num(200)
            /\ stats.Heavy.avg = Num(2000)
            /\ insights.ratio = "100.0x"

C9_ExampleWitness == InsightsWritten /\ ExampleRun /\ insights.ratio = "100.0x"

ResultFields == {"lightweight", "medium", "heavy", "total"}

\* when the statistics are computed every sequence is complete, and the
\* statistics are computed at most once
StatsOverCompleteSequences ==
    /\ pc = "stats" =>
        \A f \in ResultFields : Len(results[f]) = iterations /\ Len(results[f]) >= 1
    /\ pc = "stats" =>
        \A f \in {"lightweight", "medium", "heavy"} : results[f] = returned[f]
    /\ \A key \in DOMAIN calls :
        /\ calls[key] <= 1
        /\ calls[key] = 1 =>
            /\ i = iterations + 1
            /\ \A f \in ResultFields : Len(results[f]) = iterations
        /\ pc \in {"table", "insights", "raw", "return", "resolved"} => calls[key] = 1

\* a sequence changes only by the append of iteration i's measurement at
\* index i: the time the workload took, or for total the time since
\* iterationStart
AppendsIterationMeasurement ==
    \A f \in ResultFields :
        results'[f] # results[f] =>
            /\ calls = NoCalls /\ calls' = NoCalls
            /\ Len(results[f]) = i - 1
            /\ results'[f] = Append(results[f],
                                    IF f = "total" THEN now' - iterationStart
                                    ELSE now' - now)

\* C10: when runBenchmark computes the statistics, each of the four
\* sequences is non-empty and holds one entry per completed iteration
\* (length = iterations = 10), entry i being the duration measured in
\* iteration i; calculateStats is called exactly once per label and only
\* after the last iteration has completed.
C10_CompleteSequences ==
    /\ [](iterations = 10 /\ StatsOverCompleteSequences)
    /\ [][AppendsIterationMeasurement]_vars

C10_Witness ==
    /\ pc = "table"
    /\ \A key \in DOMAIN calls : calls[key] = 1
    /\ \A f \in ResultFields : Len(results[f]) = iterations
    /\ results.lightweight[iterations] > 0 /\ results.heavy[1] > 0
    /\ stats.Total.avg = Rat(MaxBusy, iterations)

FieldOf(key) ==
    IF key = "Lightweight" THEN "lightweight"
    ELSE IF key = "Medium" THEN "medium"
    ELSE IF key = "Heavy" THEN "heavy" ELSE "total"

AfterLoop == {"stats", "table", "insights", "raw", "return"}

\* the run has returned { results, stats }
RunReturned == error = "none" /\ pc \in {"finally", "resolved", "exited"}

\* a Stats record is that of one sequence alone: its average times the
\* length is the sequence's sum and its extremes are those of the sequence
StatsOfSequence(st, s) ==
    /\ st.avg.k = "fin" /\ st.avg.num * Len(s) = SumOf(s) * st.avg.den
    /\ st.min.k = "fin" /\ st.min.den = 1 /\ st.min.num \in Elements(s)
    /\ st.max.k = "fin" /\ st.max.den = 1 /\ st.max.num \in Elements(s)
    /\ \A x \in Elements(s) : st.min.num <= x /\ x <= st.max.num
    /\ st.sd.k = "sqrt"
    /\ st.sd.num * Len(s) * Len(s) * Len(s)
          = st.sd.den * ScaledSqDev(s, Len(s), SumOf(s))

ReportKeepsResults ==
    /\ (calls # NoCalls) =>
          \A key \in DOMAIN stats : StatsOfSequence(stats[key], results[FieldOf(key)])
    /\ RunReturned =>
          /\ \A f \in {"lightweight", "medium", "heavy"} : results[f] = returned[f]
          /\ \A f \in ResultFields : Len(results[f]) = iterations
          /\ Len(table) = Len(StatsKeys) + 5 /\ Len(raw) = 4

\* C13: calculateStats, printTable, the insights and the raw-data dump
\* leave the collected sequences unchanged: the results returned by
\* runBenchmark hold, per label, the durations appended during the
\* iterations in iteration order, and each label's Stats is that of its own
\* sequence alone (no state is carried from one calculateStats call to the
\* next).
C13_ReportKeepsResults ==
    /\ []ReportKeepsResults
    /\ [][(pc \in AfterLoop \/ RunReturned) => results' = results]_vars

C13_Witness ==
    /\ RunReturned /\ pc = "exited"
    /\ results.lightweight[1] > results.lightweight[2]
    /\ results.heavy[iterations] > 0
    /\ raw[1] = "1, 0, 0, 0, 0, 0, 0, 0, 0, 0"
    /\ stats.Lightweight.avg = Rat(1, iterations)
    /\ stats.Medium.avg = Num(0)

\* where the run stands once a workload has thrown: the sequences filled
\* before it in iteration i, nothing after it
StoppedAt(name) ==
    LET done == [lightweight |-> IF name = "lightweightQuery" THEN i - 1 ELSE i,
                 medium |-> IF name = "heavyQuery" THEN i ELSE i - 1,
                 heavy |-> i - 1,
                 total |-> i - 1]
    IN  \A f \in ResultFields : Len(results[f]) = done[f]

AbortsOnFailure ==
    /\ error # "none" =>
        /\ error \in {"lightweightQuery", "mediumQuery", "heavyQuery"}
        /\ pc \in {"catch", "finally", "rejected", "exited"}
        /\ i <= iterations
        /\ StoppedAt(error)
        /\ calls = NoCalls /\ stats = NoStatsMap
        /\ table = <<>> /\ insights = NoInsights /\ raw = <<>>
        /\ exitCode \in {-1, 1}
    /\ pc = "rejected" => error # "none"
    /\ pc = "exited" => exitCode = (IF error = "none" THEN 0 ELSE 1)
    /\ pc # "exited" => exitCode = -1
    /\ exitCode = 0 =>
        /\ \A f \in ResultFields : Len(results[f]) = iterations
        /\ \A key \in DOMAIN calls : calls[key] = 1
        /\ Len(table) = Len(StatsKeys) + 5 /\ InsightsWritten /\ Len(raw) = 4

\* C14: if a workload fails in any iteration the run aborts there: no later
\* workload or iteration is started, the failed workload is not retried,
\* calculateStats, printTable and the insights are never executed, the same
\* error is rethrown to the caller, and the process exits with code 1
\* (code 0 only when all iterations and the report completed).
C14_AbortOnFailure ==
    /\ []AbortsOnFailure
    /\ [][error # "none" =>
             /\ error' = error /\ results' = results /\ i' = i
             /\ returned' = returned
             /\ pc' \in {"catch", "finally", "rejected", "exited"}]_vars

C14_Witness ==
    /\ pc = "exited" /\ exitCode = 1 /\ error = "heavyQuery"
    /\ i = 3 /\ Len(results.medium) = 3 /\ Len(results.heavy) = 2
    /\ results.lightweight[2] > 0

Settled == {"resolved", "rejected", "exited"}

DisconnectedOnce ==
    /\ disconnects \in {0, 1}
    /\ disconnects = 1 <=> pc \in Settled
    /\ pc \in Settled =>
        /\ error = "none" => \A f \in ResultFields : Len(results[f]) = iterations
        /\ error # "none" => StoppedAt(error)

\* C15: on every terminating path (all iterations succeed, or a workload
\* throws) prisma.$disconnect is invoked exactly once, after the last
\* workload step and before the promise returned by runBenchmark settles.
C15_DisconnectOnce ==
    /\ []DisconnectedOnce
    /\ [][disconnects' # disconnects =>
             /\ pc = "finally" /\ pc' \in {"resolved", "rejected"}
             /\ disconnects' = 1]_vars
    /\ [][disconnects = 1 =>
             /\ disconnects' = 1
             /\ results' = results /\ returned' = returned /\ i' = i
             /\ outstanding' <= outstanding]_vars

C15_Witness ==
    /\ pc = "rejected" /\ disconnects = 1
    /\ error = "lightweightQuery" /\ i = 2
    /\ Len(results.total) = 1

C15_WitnessSucceeded ==
    /\ pc = "resolved" /\ disconnects = 1 /\ error = "none"
    /\ Len(results.total) = iterations /\ Len(raw) = 4

\* C16: prisma.$disconnect is never invoked while a database request issued
\* by a workload is still outstanding, including the Promise.all batches
\* when one create of the batch rejects.
C16_DisconnectAfterRequests ==
    [][disconnects' # disconnects => outstanding = 0]_vars

\* a batch of mediumQuery in the first iteration loses one create and the
\* client is disconnected with another create of that batch in flight
DisconnectedInFlight ==
    /\ pc = "rejected" /\ disconnects = 1 /\ outstanding > 0
    /\ error = "mediumQuery" /\ i = 1

\* requests are in flight at the disconnect only after a rejected batch
InFlightOnlyAfterBatch ==
    [][(disconnects' # disconnects /\ outstanding > 0) =>
          /\ error \in {"mediumQuery", "heavyQuery"}
          /\ outstanding < BatchSize]_vars

LengthsOrdered ==
    /\ Len(results.total) <= Len(results.heavy)
    /\ Len(results.heavy) <= Len(results.medium)
    /\ Len(results.medium) <= Len(results.lightweight)
    /\ Len(results.lightweight) <= Len(results.total) + 1
    /\ Len(results.lightweight) <= iterations

Grows(f) == Len(results'[f]) # Len(results[f])

\* C17: at every moment of a run len(total) <= len(heavy) <= len(medium) <=
\* len(lightweight) <= len(total) + 1 and len(lightweight) <= iterations:
\* the workloads of an iteration run strictly in the order lightweight,
\* medium, heavy and never overlap.
C17_LengthsOrdered ==
    /\ []LengthsOrdered
    /\ [][\A f \in ResultFields : Grows(f) =>
             /\ Len(results'[f]) = Len(results[f]) + 1
             /\ \A g \in ResultFields \ {f} : ~Grows(g)
             /\ outstanding = 0]_vars
    /\ [][/\ Grows("lightweight") => Len(results.lightweight) = Len(results.total)
          /\ Grows("medium") => Len(results.lightweight) = Len(results.medium) + 1
          /\ Grows("heavy") => Len(results.medium) = Len(results.heavy) + 1
          /\ Grows("total") => Len(results.heavy) = Len(results.total) + 1]_vars
    /\ [][outstanding' > outstanding => outstanding = 0]_vars

C17_Witness ==
    /\ pc = "heavyAll" /\ outstanding = 1
    /\ Len(results.lightweight) = 3 /\ Len(results.medium) = 3
    /\ Len(results.heavy) = 2 /\ Len(results.total) = 2

NonNegative ==
    \A f \in ResultFields : \A x \in 1..Len(results[f]) : results[f][x] >= 0

IterationCovered(x) ==
    results.total[x] >= results.lightweight[x] + results.medium[x] + results.heavy[x]

TotalCovers ==
    NonNegative /\ \A x \in 1..Len(results.total) : IterationCovered(x)

StatsComputed == \A key \in DOMAIN calls : calls[key] = 1

\* the sum of the three workload averages, as the quotients are in exact
\* arithmetic
ExactSum ==
    RatAdd(RatAdd(stats.Lightweight.avg, stats.Medium.avg), stats.Heavy.avg)

BinaryExponent(x) == Exp2(x.num, x.den)

LowestExponent ==
    LET pos == {key \in DOMAIN stats : stats[key].avg.num > 0}
    IN  IF pos = {} THEN 0
        ELSE CHOOSE e \in {BinaryExponent(stats[key].avg) : key \in pos} :
                 \A key \in pos : e <= BinaryExponent(stats[key].avg)

\* what the double holding the average x = sum / iterations adds to the
\* exact quotient, in units of 2^(LowestExponent - 52) / iterations
ErrorUnits(x) ==
    IF x.num = 0 THEN 0
    ELSE RoundingError(x.num, x.den) * (iterations \div x.den)
             * Pow(2, BinaryExponent(x) - LowestExponent)

\* Total.avg >= Lightweight.avg + Medium.avg + Heavy.avg for the doubles the
\* Stats hold.  The exact quotients are multiples of 1/iterations and a
\* double is within 2^-53 of its quotient in relative terms, so the
\* roundings decide only when the exact quotients are equal.
DoubleAvgCovers ==
    \/ JsLt(ExactSum, stats.Total.avg)
    \/ /\ ExactSum = stats.Total.avg
       /\ ErrorUnits(stats.Total.avg) >=
            ErrorUnits(stats.Lightweight.avg) + ErrorUnits(stats.Medium.avg)
              + ErrorUnits(stats.Heavy.avg)

\* C18: with a clock that never decreases between two reads, every
\* recorded duration is non-negative and total[i] >= lightweight[i] +
\* medium[i] + heavy[i] for every completed iteration i, hence Total.avg >=
\* Lightweight.avg + Medium.avg + Heavy.avg.
C18_TotalCoversWorkloads ==
    TotalCovers /\ (StatsComputed => DoubleAvgCovers)

\* C18 as the code has it: durations are non-negative, every completed
\* iteration's total covers its three durations, the sum of the totals
\* covers the three sums, and the Total average falls short of the sum of
\* the three averages only by the rounding of the four divisions, when
\* every iteration's total equals the sum of its three durations.
C18_TotalCoversUpToRounding ==
    /\ TotalCovers
    /\ \A n \in 0..Len(results.total) :
         SumTo(results.total, n) >= SumTo(results.lightweight, n)
             + SumTo(results.medium, n) + SumTo(results.heavy, n)
    /\ StatsComputed =>
        /\ JsLe(ExactSum, stats.Total.avg)
        /\ ~DoubleAvgCovers =>
             \A x \in 1..iterations :
                 results.total[x] = results.lightweight[x] + results.medium[x]
                                        + results.heavy[x]

C18_Witness ==
    /\ pc = "exited" /\ exitCode = 0 /\ StatsComputed
    /\ results.medium[1] > 0 /\ results.heavy[2] > 0
    /\ results.total[2] > results.lightweight[2] + results.medium[2] + results.heavy[2]

\* ten iterations measuring 1 ms, 2 ms and 0 ms in all: the averages are the
\* doubles 0.1, 0.2, 0 and 0.3, and 0.1 + 0.2 exceeds 0.3
AvgShortByRounding ==
    /\ StatsComputed
    /\ stats.Lightweight.avg = Rat(1, 10) /\ stats.Medium.avg = Rat(2, 10)
    /\ stats.Heavy.avg = Num(0) /\ stats.Total.avg = Rat(3, 10)
    /\ ~DoubleAvgCovers

====
